---- MODULE Spec2Model ----
(***************************************************************************)
(* The leaderboard subsystem of the API server: the Leaderboard collection  *)
(* and the request handlers POST /leaderboard (SubmitScore),                *)
(* GET /leaderboard (GetFullRanking), GET /leaderboard/user                 *)
(* (GetParticipantView) and DELETE /leaderboard (ClearAll).                 *)
(*                                                                         *)
(* The repository holds two versions of the server.  src/index.js (and the *)
(* identical src/unnamed/part_001) always writes score and raises highScore *)
(* when beaten, and has only the POST and GET /leaderboard routes.          *)
(* src/unnamed/part_000 writes score and highScore together, only when the  *)
(* submitted score beats highScore, and adds the per-user view and the      *)
(* delete-all route.  The variable `variant` says which server is running.  *)
(*                                                                         *)
(* Every handler is an async function: it runs atomically up to each await  *)
(* of a database call, and the handlers of different requests interleave at *)
(* those awaits.  One action models one database call together with the     *)
(* synchronous code that follows it.                                        *)
(*                                                                         *)
(* Mongoose semantics the handlers rely on:                                 *)
(*  - the schema declares no unique index on userId, so create() never      *)
(*    fails on a duplicate userId;                                          *)
(*  - doc.save() sends $set for the modified paths only (a path assigned    *)
(*    the value it already holds is not modified), addressed by _id; with   *)
(*    no modified path it sends nothing; when no document has that _id it   *)
(*    throws DocumentNotFoundError;                                         *)
(*  - find().sort({highScore: -1}) returns the documents in descending      *)
(*    highScore order; the order among equal highScores is not specified.   *)
(*  - create() validates the new document: without a userId (required) it  *)
(*    throws ValidationError; a Number path given undefined holds the       *)
(*    schema's default; a path assigned undefined is unset by save();       *)
(*  - findOne({ userId: undefined }) matches the documents without a        *)
(*    userId, of which there is none.                                       *)
(* Every userId submitted is a well-formed ObjectId that has a User         *)
(* document, so casts and populate() succeed.                               *)
(***************************************************************************)
EXTENDS Integers, Sequences, FiniteSets, TLC

\* Bounds of the model.
MaxReq == 3
MaxInFlight == 2
MaxScore == 3

\* .limit(10) of the top-10 query.
TopK == 10

\* req.body.score of a body that carries no score: undefined.  It is below
\* every score, as undefined > n is false for every number n.
Undefined == -1

\* req.body.userId of a body that carries no userId.
NoUserId == "undefined"

\* default: 0 of the schema's score and highScore.
DefaultScore == 0

Variants == {"index", "part_000"}
UserIds == {"u1", "u2"}
Scores == 0 .. MaxScore
Req == 1 .. MaxReq

\* The display metadata a submission carries (req.body).
Payloads ==
  { [userName |-> "n1", userImage |-> "i1", country |-> "c1"],
    [userName |-> "n2", userImage |-> "i2", country |-> "c2"] }

\* The submissions clients send: u1 under either name, u2 under one.
Bodies ==
  { b \in [userId : UserIds, payload : Payloads, score : Scores] :
      b.userId = "u2" => b.payload.userName = "n1" }

\* The body of the submission that created the entry a server may find in the
\* collection when it starts.
SeedBody ==
  [userId |-> "u1",
   payload |-> [userName |-> "n1", userImage |-> "i1", country |-> "c1"],
   score |-> 0]

\* The bodies clients may send, those without a userId or without a score
\* among them.
AllBodies ==
  Bodies
  \cup { [userId |-> NoUserId, payload |-> SeedBody.payload, score |-> s] :
           s \in {0, MaxScore} }
  \cup { [userId |-> u, payload |-> SeedBody.payload, score |-> Undefined] :
           u \in UserIds \cup {NoUserId} }

\* No document (null), no request, no response.
NoDoc ==
  [_id |-> 0, userId |-> "none", userName |-> "none", userImage |-> "none",
   country |-> "none", score |-> 0, highScore |-> 0]

NoPayload == [userName |-> "none", userImage |-> "none", country |-> "none"]

NoOp ==
  [kind |-> "none", userId |-> "none", payload |-> NoPayload, score |-> 0]

\* A response, with the request it answers (kind, userId, payload, score), the
\* document the handler's findOne had returned (found), the request's peer, and
\* whether the request repeated the submission before it (again).
NoResp ==
  [kind |-> "none", userId |-> "none", payload |-> NoPayload, score |-> 0,
   found |-> NoDoc, peer |-> -1, again |-> FALSE, status |-> 0,
   message |-> "none",
   entry |-> NoDoc,
   rank |-> -1, list |-> << >>, top10 |-> << >>, deletedCount |-> -1]

VARIABLES
  variant,          \* which server runs
  store,            \* the Leaderboard collection, in natural (insertion) order
  nextId,           \* the next fresh _id
  pc,               \* each request's position in its handler
  op,               \* each request's kind and inputs
  existingEntry,    \* POST /leaderboard: the document findOne returned
  userLeaderboard,  \* GET /leaderboard/user: the document findOne returned
  topLeaderboard,   \* GET /leaderboard/user: the ranked top-10
  resp,             \* the response sent last
  peer,             \* history: per running submission, the highest score saved
                    \* meanwhile by a submission that had read the same document
  submitted,        \* history: per user, max and last score of completed submissions
  overlap           \* history: per user, whether a submission overlapped another
                    \* submission for the user or a delete-all

vars ==
  << variant, store, nextId, pc, op, existingEntry, userLeaderboard,
     topLeaderboard, resp, peer, submitted, overlap >>

Max(a, b) == IF a >= b THEN a ELSE b

Min(a, b) == IF a <= b THEN a ELSE b

Indexes(u) == { k \in 1 .. Len(store) : store[k].userId = u }

\* Leaderboard.findOne({ userId }): the first match in natural order, or null.
findOne(u) ==
  IF Indexes(u) = {} THEN NoDoc
  ELSE store[CHOOSE k \in Indexes(u) : \A l \in Indexes(u) : k <= l]

\* A Number path given undefined holds the schema's default.
Default(s) == IF s = Undefined THEN DefaultScore ELSE s

\* A document as Mongoose hydrates it: a path the stored document lacks holds
\* the schema's default.
Hydrated(doc) == [doc EXCEPT !.score = Default(@), !.highScore = Default(@)]

\* create() without highScore: the schema's default 0 is stored.
NewEntryDefaultHighScore(id, u, p, s) ==
  [_id |-> id, userId |-> u, userName |-> p.userName,
   userImage |-> p.userImage,
   country |-> IF variant = "part_000" THEN p.country ELSE "none",
   score |-> s, highScore |-> 0]

\* Leaderboard.create({...}): score and highScore both the submitted score,
\* the schema's default when the body has none.
\* index.js does not read country from the body, part_000 does.
NewEntry(id, u, p, s) ==
  [_id |-> id, userId |-> u, userName |-> p.userName,
   userImage |-> p.userImage,
   country |-> IF variant = "part_000" THEN p.country ELSE "none",
   score |-> Default(s), highScore |-> Default(s)]

\* An update that overwrites highScore with every submitted score.
UpdateBoth(e, p, s) == [e EXCEPT !.score = s, !.highScore = s]

\* index.js: score always; highScore when beaten.
UpdateAlways(e, p, s) ==
  [e EXCEPT !.score = s,
            !.highScore = IF s > e.highScore THEN s ELSE e.highScore]

\* part_000: both, and only when highScore is beaten.
UpdateIfHigher(e, p, s) ==
  IF s > e.highScore THEN [e EXCEPT !.score = s, !.highScore = s] ELSE e

\* An update that adds the submitted score to the entry's.
AssignedSum(e, p, s) ==
  [e EXCEPT !.score = @ + s,
            !.highScore = IF e.score + s > @ THEN e.score + s ELSE @]

\* An update that also assigns the submission's display metadata.
AssignedWithMetadata(e, p, s) ==
  [ (IF variant = "index" THEN UpdateAlways(e, p, s) ELSE UpdateIfHigher(e, p, s))
      EXCEPT !.userName = p.userName, !.userImage = p.userImage ]

\* The in-memory document after the handler's assignments.
Assigned(e, p, s) ==
  IF variant = "index" THEN UpdateAlways(e, p, s) ELSE UpdateIfHigher(e, p, s)

\* A handler that calls save() on every path.
SavesAlways(e, s) == TRUE

\* Whether the handler calls save(): always in index.js, in part_000 only when
\* highScore is beaten.
CallsSave(e, s) == variant = "index" \/ s > e.highScore

Paths == {"userName", "userImage", "country", "score", "highScore"}

\* The paths save() sends: those whose value differs from the loaded one.
ModifiedPaths(e, m) == { f \in Paths : m[f] # e[f] }

DocIndexes(id) == { k \in 1 .. Len(store) : store[k]._id = id }

\* An update of every document (updateMany with an empty filter) instead of
\* the one loaded.
SavedAll(e, m) ==
  [ k \in 1 .. Len(store) |->
      [ f \in DOMAIN store[k] |->
          IF f \in ModifiedPaths(e, m) THEN m[f] ELSE store[k][f] ] ]

\* A save that raises highScore atomically ($max) instead of setting it.
SavedMax(e, m) ==
  [ k \in 1 .. Len(store) |->
      IF store[k]._id = e._id
      THEN [ f \in DOMAIN store[k] |->
               IF f = "highScore" THEN Max(store[k][f], m[f])
               ELSE IF f \in ModifiedPaths(e, m) THEN m[f] ELSE store[k][f] ]
      ELSE store[k] ]

\* save(): $set of the modified paths on the document with the same _id.
Saved(e, m) ==
  [ k \in 1 .. Len(store) |->
      IF store[k]._id = e._id
      THEN [ f \in DOMAIN store[k] |->
               IF f \in ModifiedPaths(e, m) THEN m[f] ELSE store[k][f] ]
      ELSE store[k] ]

\* The response message of POST /leaderboard.
SubmitMessage(e, s) ==
  IF e = NoDoc THEN "Leaderboard entry created successfully"
  ELSE IF CallsSave(e, s) THEN "Leaderboard updated successfully"
  ELSE "Score not high enough to update leaderboard"

\* The requests being handled.
Running == { j \in Req : pc[j] \notin {"idle", "done"} }

\* Requests arrive in the order of their numbers; they interleave afterwards.
Arrives(i) ==
  /\ pc[i] = "idle"
  /\ \A j \in 1 .. i - 1 : pc[j] # "idle"
  /\ Cardinality(Running) < MaxInFlight

\* The submissions for u between their findOne and their create or save.
InFlight(u) ==
  { j \in Req : op[j].kind = "submit" /\ pc[j] = "save" /\ op[j].userId = u }

\* .sort({ highScore: 1 })
Ascending(a, b) == a.highScore <= b.highScore

\* .sort({ highScore: -1 })
Descending(a, b) == a.highScore >= b.highScore

\* The orders of the documents docs[k], k in S, in which every document
\* comes before those it precedes in the sort: any document that precedes
\* all others first, then the rest likewise.
RECURSIVE SortedFrom(_, _)
SortedFrom(docs, S) ==
  IF S = {} THEN { << >> }
  ELSE UNION { { << docs[k] >> \o q : q \in SortedFrom(docs, S \ {k}) } :
                 k \in { a \in S : \A b \in S : Descending(docs[a], docs[b]) } }

\* Leaderboard.find().sort({ highScore: -1 }): every order the query may
\* return, equal highScores in any order.
Sorted(docs) == SortedFrom(docs, 1 .. Len(docs))

\* find() without .limit(n)
NoLimit(q, n) == q

\* .limit(n)
Limit(q, n) == SubSeq(q, 1, Min(Len(q), n))

\* rank: index + 1, for the 0-based index of the k-th element.
RankOf(k) == (k - 1) + 1

\* .map((entry, index) => ({ rank: index + 1, ...entry }))
Ranked(q) == [k \in 1 .. Len(q) |-> [rank |-> RankOf(k), entry |-> q[k]]]

\* allLeaderboard.findIndex(entry => entry.userId.toString() === userId):
\* the 0-based index of the first match, -1 when there is none.
findIndex(q, u) ==
  LET hits == { k \in 1 .. Len(q) : q[k].userId = u }
  IN  IF hits = {} THEN -1
      ELSE (CHOOSE k \in hits : \A l \in hits : k <= l) - 1

\* User.country of the populated user: the schema's default.
UserCountry(u) == "Unknown"

\* The response sent.
Answer(r) == resp' = r

\* The handler of request i returns: its locals are dropped.
Return(i) ==
  /\ pc' = [pc EXCEPT ![i] = "done"]
  /\ op' = [op EXCEPT ![i] = NoOp]
  /\ existingEntry' = [existingEntry EXCEPT ![i] = NoDoc]
  /\ userLeaderboard' = [userLeaderboard EXCEPT ![i] = NoDoc]
  /\ topLeaderboard' = [topLeaderboard EXCEPT ![i] = << >>]

\* The server starts on an empty collection, or on one that holds the entry an
\* earlier submission created.
Init ==
  /\ variant \in Variants
  /\ store \in { << >>,
                 << NewEntry(1, SeedBody.userId, SeedBody.payload, SeedBody.score) >> }
  /\ nextId = Len(store) + 1
  /\ pc = [i \in Req |-> "idle"]
  /\ op = [i \in Req |-> NoOp]
  /\ existingEntry = [i \in Req |-> NoDoc]
  /\ userLeaderboard = [i \in Req |-> NoDoc]
  /\ topLeaderboard = [i \in Req |-> << >>]
  /\ resp = NoResp
  /\ peer = [i \in Req |-> -1]
  /\ submitted = [u \in UserIds |->
                   IF Indexes(u) = {} THEN [max |-> -1, last |-> -1]
                   ELSE [max |-> SeedBody.score, last |-> SeedBody.score]]
  /\ overlap = [u \in UserIds |-> FALSE]

\* The entries of a collection that already holds more than TopK entries:
\* those of u1 and u2 at the bottom, and above them the entries of other
\* users, each with a highScore of its own.
TopUserId(k) == IF k = 1 THEN "u1" ELSE IF k = 2 THEN "u2" ELSE ToString(k)

TopScore(k) == IF k = 1 THEN 0 ELSE k

\* The part_000 server starts on a collection of TopK + 1 entries.
InitTop ==
  /\ variant = "part_000"
  /\ store = [k \in 1 .. TopK + 1 |->
                NewEntry(k, TopUserId(k), SeedBody.payload, TopScore(k))]
  /\ nextId = Len(store) + 1
  /\ pc = [i \in Req |-> "idle"]
  /\ op = [i \in Req |-> NoOp]
  /\ existingEntry = [i \in Req |-> NoDoc]
  /\ userLeaderboard = [i \in Req |-> NoDoc]
  /\ topLeaderboard = [i \in Req |-> << >>]
  /\ resp = NoResp
  /\ peer = [i \in Req |-> -1]
  /\ submitted = [u \in UserIds |->
                   [max |-> findOne(u).highScore, last |-> findOne(u).score]]
  /\ overlap = [u \in UserIds |-> FALSE]

\* POST /leaderboard up to the await of findOne.
SubmitFindOne(i, u, p, s) ==
  /\ Arrives(i)
  /\ op' = [op EXCEPT ![i] =
              [kind |-> "submit", userId |-> u, payload |-> p, score |-> s]]
  /\ existingEntry' = [existingEntry EXCEPT ![i] = Hydrated(findOne(u))]
  /\ pc' = [pc EXCEPT ![i] = "save"]
  /\ overlap' = IF u \in UserIds /\ InFlight(u) # {} THEN [overlap EXCEPT ![u] = TRUE] ELSE overlap
  /\ UNCHANGED << variant, store, nextId, userLeaderboard, topLeaderboard,
                  resp, peer, submitted >>

\* Submission i carries the score of the submission for its user completed
\* last, and ran after it with no other submission for the user in between.
Resubmits(i) ==
  /\ op[i].userId \in UserIds
  /\ op[i].score \in Scores
  /\ submitted[op[i].userId].last = op[i].score
  /\ ~overlap[op[i].userId]

\* The response of POST /leaderboard.
SubmitResponse(i, status, message, entry) ==
  [NoResp EXCEPT !.kind = "submit", !.userId = op[i].userId,
                 !.payload = op[i].payload, !.score = op[i].score,
                 !.found = existingEntry[i], !.peer = peer[i],
                 !.again = Resubmits(i),
                 !.status = status,
                 !.message = message, !.entry = entry]

\* The running submissions that read the very document request i read.
ReadSame(i) ==
  { j \in Req \ {i} : /\ op[j].kind = "submit"
                       /\ pc[j] = "save"
                       /\ existingEntry[i] # NoDoc
                       /\ existingEntry[j] = existingEntry[i] }

\* POST /leaderboard from findOne's result to the response: create (which
\* validates the new document), or assign and save, or (part_000) answer
\* without writing.
SubmitSave(i) ==
  /\ pc[i] = "save"
  /\ op[i].kind = "submit"
  /\ LET e == existingEntry[i]
         u == op[i].userId
         s == op[i].score
         m == Assigned(e, op[i].payload, s)
         n == NewEntry(nextId, u, op[i].payload, s)
         done == [submitted EXCEPT ![u] =
                    [max |-> Max(@.max, s), last |-> s]]
     IN  IF e = NoDoc /\ u = NoUserId
         THEN \* ValidationError (userId is required), caught: 400
              /\ Answer(SubmitResponse(i, 400, "Error updating leaderboard", NoDoc))
              /\ peer' = [peer EXCEPT ![i] = -1]
              /\ UNCHANGED << store, nextId, submitted >>
         ELSE IF e = NoDoc
         THEN /\ store' = Append(store, n)
              /\ nextId' = nextId + 1
              /\ Answer(SubmitResponse(i, 200, SubmitMessage(e, s), n))
              /\ submitted' = done
              /\ peer' = [peer EXCEPT ![i] = -1]
         ELSE IF CallsSave(e, s) /\ ModifiedPaths(e, m) # {}
                 /\ DocIndexes(e._id) = {}
         THEN \* DocumentNotFoundError, caught: 400
              /\ Answer(SubmitResponse(i, 400, "Error updating leaderboard", NoDoc))
              /\ peer' = [peer EXCEPT ![i] = -1]
              /\ UNCHANGED << store, nextId, submitted >>
         ELSE /\ store' = IF CallsSave(e, s) THEN Saved(e, m) ELSE store
              /\ Answer(SubmitResponse(i, 200, SubmitMessage(e, s), m))
              /\ submitted' = done
              /\ peer' = [j \in Req |->
                            IF j = i THEN -1
                            ELSE IF j \in ReadSame(i) /\ CallsSave(e, s)
                            THEN Max(peer[j], s)
                            ELSE peer[j]]
              /\ UNCHANGED nextId
  /\ Return(i)
  /\ UNCHANGED << variant, overlap >>

\* GET /leaderboard: one query, then the ranks.
GetLeaderboard(i) ==
  /\ Arrives(i)
  /\ \E q \in Sorted(store) :
       Answer([NoResp EXCEPT !.kind = "ranking", !.status = 200,
                 !.message = "Leaderboard fetched successfully",
                 !.list = Ranked(q)])
  /\ pc' = [pc EXCEPT ![i] = "done"]
  /\ UNCHANGED << variant, store, nextId, op, existingEntry, userLeaderboard,
                  topLeaderboard, peer, submitted, overlap >>

\* GET /leaderboard/user without a userId: 400.
ViewNoUserId(i) ==
  /\ variant = "part_000"
  /\ Arrives(i)
  /\ Answer([NoResp EXCEPT !.kind = "view", !.status = 400,
               !.message = "userId is required"])
  /\ pc' = [pc EXCEPT ![i] = "done"]
  /\ UNCHANGED << variant, store, nextId, op, existingEntry, userLeaderboard,
                  topLeaderboard, peer, submitted, overlap >>

\* The 404 of GET /leaderboard/user.
NotFound(u) ==
  [NoResp EXCEPT !.kind = "view", !.userId = u, !.status = 404,
                 !.message = "User not found in leaderboard"]

\* The same without the 404: the handler goes on with a null document.
ViewFindOneNoCheck(i, u) ==
  /\ variant = "part_000"
  /\ Arrives(i)
  /\ op' = [op EXCEPT ![i] = [NoOp EXCEPT !.kind = "view", !.userId = u]]
  /\ userLeaderboard' = [userLeaderboard EXCEPT ![i] = findOne(u)]
  /\ pc' = [pc EXCEPT ![i] = "top10"]
  /\ UNCHANGED << variant, store, nextId, existingEntry, topLeaderboard,
                  resp, peer, submitted, overlap >>

\* GET /leaderboard/user up to the user's own document: 404 when there is none.
ViewFindOne(i, u) ==
  /\ variant = "part_000"
  /\ Arrives(i)
  /\ IF findOne(u) = NoDoc
     THEN /\ Answer(NotFound(u))
          /\ pc' = [pc EXCEPT ![i] = "done"]
          /\ UNCHANGED << op, userLeaderboard >>
     ELSE /\ op' = [op EXCEPT ![i] = [NoOp EXCEPT !.kind = "view", !.userId = u]]
          /\ userLeaderboard' = [userLeaderboard EXCEPT ![i] = findOne(u)]
          /\ pc' = [pc EXCEPT ![i] = "top10"]
          /\ UNCHANGED resp
  /\ UNCHANGED << variant, store, nextId, existingEntry, topLeaderboard,
                  peer, submitted, overlap >>

\* GET /leaderboard/user: the top-10 query and its ranks.
ViewTop10(i) ==
  /\ pc[i] = "top10"
  /\ \E q \in Sorted(store) :
       topLeaderboard' = [topLeaderboard EXCEPT ![i] = Ranked(Limit(q, TopK))]
  /\ pc' = [pc EXCEPT ![i] = "all"]
  /\ UNCHANGED << variant, store, nextId, op, existingEntry, userLeaderboard,
                  resp, peer, submitted, overlap >>

\* The 200 of GET /leaderboard/user: userData (with its rank) and top10.
UserData(i, q) ==
  [NoResp EXCEPT !.kind = "view", !.userId = op[i].userId,
                 !.found = userLeaderboard[i], !.status = 200,
                 !.message = "User leaderboard data fetched successfully",
                 !.entry = [userLeaderboard[i] EXCEPT
                              !.country = UserCountry(op[i].userId)],
                 !.rank = findIndex(q, op[i].userId) + 1,
                 !.top10 = topLeaderboard[i]]

\* GET /leaderboard/user: the full query, the user's rank, the response.
ViewAll(i) ==
  /\ pc[i] = "all"
  /\ \E q \in Sorted(store) : Answer(UserData(i, q))
  /\ Return(i)
  /\ UNCHANGED << variant, store, nextId, peer, submitted, overlap >>

\* DELETE /leaderboard with deleteOne({}): the first entry goes.
DeleteOne(i) ==
  /\ variant = "part_000"
  /\ Arrives(i)
  /\ store' = SubSeq(store, 2, Len(store))
  /\ Answer([NoResp EXCEPT !.kind = "delete", !.status = 200,
               !.message = "All leaderboard data deleted successfully",
               !.deletedCount = Min(1, Len(store))])
  /\ pc' = [pc EXCEPT ![i] = "done"]
  /\ submitted' = [u \in UserIds |-> [max |-> -1, last |-> -1]]
  /\ overlap' = [u \in UserIds |-> InFlight(u) # {}]
  /\ UNCHANGED << variant, nextId, op, existingEntry, userLeaderboard,
                  topLeaderboard, peer >>

\* DELETE /leaderboard: deleteMany({}).
DeleteAll(i) ==
  /\ variant = "part_000"
  /\ Arrives(i)
  /\ store' = << >>
  /\ Answer([NoResp EXCEPT !.kind = "delete", !.status = 200,
               !.message = "All leaderboard data deleted successfully",
               !.deletedCount = Len(store)])
  /\ pc' = [pc EXCEPT ![i] = "done"]
  /\ submitted' = [u \in UserIds |-> [max |-> -1, last |-> -1]]
  /\ overlap' = [u \in UserIds |-> InFlight(u) # {}]
  /\ UNCHANGED << variant, nextId, op, existingEntry, userLeaderboard,
                  topLeaderboard, peer >>

Next ==
  \/ \E i \in Req, b \in Bodies :
       SubmitFindOne(i, b.userId, b.payload, b.score)
  \/ \E i \in Req : SubmitSave(i)
  \/ \E i \in Req : GetLeaderboard(i)
  \/ \E i \in Req : ViewNoUserId(i)
  \/ \E i \in Req, u \in UserIds : ViewFindOne(i, u)
  \/ \E i \in Req : ViewTop10(i)
  \/ \E i \in Req : ViewAll(i)
  \/ \E i \in Req : DeleteAll(i)

Spec == Init /\ [][Next]_vars

\* The same server, its clients sending bodies without a userId or a score
\* too.
NextAll ==
  \/ \E i \in Req, b \in AllBodies :
       SubmitFindOne(i, b.userId, b.payload, b.score)
  \/ \E i \in Req : SubmitSave(i)
  \/ \E i \in Req : GetLeaderboard(i)
  \/ \E i \in Req : ViewNoUserId(i)
  \/ \E i \in Req, u \in UserIds : ViewFindOne(i, u)
  \/ \E i \in Req : ViewTop10(i)
  \/ \E i \in Req : ViewAll(i)
  \/ \E i \in Req : DeleteAll(i)

SpecAll == Init /\ [][NextAll]_vars

\* The part_000 server on a collection of more than TopK entries.
SpecTop == InitTop /\ [][Next]_vars

(***************************************************************************)
(* The claims.  resp is the response sent last, and every step that changes *)
(* the collection also sends a response: in a state whose resp answers a    *)
(* write, store is the collection as that write left it.                    *)
(***************************************************************************)

\* The submission resp answers wrote an existing document.
Updated ==
  /\ resp.kind = "submit"
  /\ resp.status = 200
  /\ resp.found # NoDoc

\* C1: when the submissions for a participant have run one after another, the
\* participant has one entry, whose highScore is the maximum of the scores
\* submitted so far and whose score is the one submitted last.
C1_SequentialMaxAndLast ==
  \A u \in UserIds :
    (~overlap[u] /\ submitted[u].last # -1) =>
      \E k \in Indexes(u) :
        /\ Indexes(u) = {k}
        /\ store[k].highScore = submitted[u].max
        /\ store[k].score = submitted[u].last

\* C2: no two entries of the collection have the same userId.
C2_OneEntryPerUser ==
  \A k, l \in 1 .. Len(store) : k # l => store[k].userId # store[l].userId

\* C3: the highScore of an entry never decreases from one state to the next
\* while the entry exists.
C3_HighScoreNeverDecreases ==
  [][ \A k \in 1 .. Len(store) : \A l \in 1 .. Len(store') :
        store'[l]._id = store[k]._id =>
          store'[l].highScore >= store[k].highScore ]_vars

\* Two submissions read the same entry; the first to save stored resp.peer, the
\* second, answered by resp, beat the highScore it had read with less than that.
C4_LostUpdate ==
  /\ Updated
  /\ resp.score > resp.found.highScore
  /\ resp.peer > resp.score

\* C4: the read-modify-write is not atomic.  Whenever two submissions read the
\* same entry and the later writer's score lies between the highScore read and
\* the earlier writer's score, the entry is left with the later writer's score
\* as highScore, smaller than the larger of the two scores submitted.
C4_LaterWriteClobbersImprovement ==
  C4_LostUpdate =>
    /\ DocIndexes(resp.found._id) # {}
    /\ \A k \in DocIndexes(resp.found._id) :
         /\ store[k].highScore = resp.score
         /\ store[k].highScore < Max(resp.score, resp.peer)

\* A submission for a user without an entry was answered.
C5_Created ==
  /\ resp.kind = "submit"
  /\ resp.found = NoDoc

\* C5: a submission for a user that has no entry appends an entry whose score
\* and highScore are the submitted score, and its response says created.
C5_CreateSetsBothScores ==
  C5_Created =>
    /\ resp.status = 200
    /\ resp.message = "Leaderboard entry created successfully"
    /\ Len(store) >= 1
    /\ store[Len(store)] = resp.entry
    /\ resp.entry.userId = resp.userId
    /\ resp.entry.score = resp.score
    /\ resp.entry.highScore = resp.score

\* C6: every entry has highScore >= score.
C6_HighScoreAtLeastScore ==
  \A k \in 1 .. Len(store) : store[k].highScore >= store[k].score

\* A ranking of at least two entries with different highScores was returned.
C7_RankingReturned ==
  /\ resp.kind = "ranking"
  /\ Len(resp.list) >= 2
  /\ \E a, b \in 1 .. Len(resp.list) :
       resp.list[a].entry.highScore > resp.list[b].entry.highScore

\* C7: in the ranking GET /leaderboard returns, a higher highScore has a
\* smaller rank, and the ranks are 1..N, each used once, N the number of
\* entries read, every entry of the collection ranked.
C7_RankingIsDescending ==
  resp.kind = "ranking" =>
    /\ \A a, b \in 1 .. Len(resp.list) :
         resp.list[a].entry.highScore > resp.list[b].entry.highScore =>
           resp.list[a].rank < resp.list[b].rank
    /\ Len(resp.list) = Len(store)
    /\ { resp.list[a].rank : a \in 1 .. Len(resp.list) } = 1 .. Len(store)
    /\ \A a, b \in 1 .. Len(resp.list) :
         a # b => resp.list[a].rank # resp.list[b].rank
    /\ \A k \in 1 .. Len(store) :
         \E a \in 1 .. Len(resp.list) : resp.list[a].entry = store[k]

\* C8: a 200 response of GET /leaderboard/user carries a rank of at least 1 and
\* at most the number of entries.
C8_RankIsAPosition ==
  (resp.kind = "view" /\ resp.status = 200) =>
    (resp.rank >= 1 /\ resp.rank <= Len(store))

\* GET /leaderboard/user answered 404 while other users have entries.
C9_NotFoundAnswered ==
  /\ resp.kind = "view"
  /\ resp.status = 404
  /\ store # << >>
  /\ Indexes(resp.userId) = {}

\* C9: GET /leaderboard/user for a user without an entry answers 404 at once,
\* with no userData, no rank and no top10, and leaves the collection as it is.
C9_UnknownUserIsNotFound ==
  [][ \A i \in Req, u \in UserIds :
        (pc[i] = "idle" /\ Indexes(u) = {} /\ ViewFindOne(i, u)) =>
          /\ pc'[i] = "done"
          /\ resp'.kind = "view"
          /\ resp'.userId = u
          /\ resp'.status = 404
          /\ resp'.entry = NoDoc
          /\ resp'.rank = -1
          /\ resp'.top10 = << >>
          /\ store' = store ]_vars

\* C10 as claimed: after a successful submission for a user with an entry, the
\* entry's userName, userImage and country are the submission's.
C10_MetadataLastWriteWins ==
  Updated =>
    \A k \in DocIndexes(resp.found._id) :
      /\ store[k].userName = resp.payload.userName
      /\ store[k].userImage = resp.payload.userImage
      /\ store[k].country = resp.payload.country

\* A successful submission for a user with an entry carried another userName
\* and userImage than the entry's.
C10_UpdatedUnderAnotherName ==
  /\ Updated
  /\ resp.message = "Leaderboard updated successfully"
  /\ DocIndexes(resp.found._id) # {}
  /\ resp.payload.userName # resp.found.userName
  /\ resp.payload.userImage # resp.found.userImage

\* C10 amended: a submission for a user with an entry leaves the entry's
\* userName, userImage and country as they were stored when the entry was
\* created; no step changes them while the entry exists.
C10_MetadataFirstWriteWins ==
  [][ \A k \in 1 .. Len(store) : \A l \in 1 .. Len(store') :
        store'[l]._id = store[k]._id =>
          /\ store'[l].userId = store[k].userId
          /\ store'[l].userName = store[k].userName
          /\ store'[l].userImage = store[k].userImage
          /\ store'[l].country = store[k].country ]_vars

\* C11: a submission whose body lacks the userId or the score is answered with
\* an error and leaves the collection as it is.
C11_MalformedIsRejected ==
  [][ \A i \in Req :
        (SubmitSave(i) /\ (op[i].userId = NoUserId \/ op[i].score = Undefined)) =>
          (resp'.status = 400 /\ store' = store) ]_vars

\* C12 as claimed: index.js answers a submission that does not beat the
\* highScore of the user's entry without an error, with score the submitted
\* score and highScore as it was, and with another outcome than that of a
\* submission that beats it.
C12_NotImprovedIsTold ==
  (variant = "index" /\ resp.kind = "submit" /\ resp.found # NoDoc
     /\ resp.score <= resp.found.highScore) =>
    /\ resp.status = 200
    /\ resp.entry.score = resp.score
    /\ resp.entry.highScore = resp.found.highScore
    /\ resp.message # "Leaderboard updated successfully"

\* index.js answered a submission below the highScore of the user's entry,
\* with another score than the entry's.
C12_UpdatedBelowHighScore ==
  /\ variant = "index"
  /\ Updated
  /\ resp.score < resp.found.highScore
  /\ resp.score # resp.found.score

\* C12 amended: index.js answers a submission that does not beat the
\* highScore it read with 200 and the entry it holds, score the submitted
\* score and highScore as read; the step writes no highScore, and the stored
\* score is the submitted one whenever that differs from the score read or no
\* other submission for the user overlapped.  The message is 'Leaderboard
\* updated successfully', the one of a submission that beats the highScore.
C12_NotImprovedAnswersUpdated ==
  [][ \A i \in Req :
        (variant = "index" /\ SubmitSave(i) /\ existingEntry[i] # NoDoc
           /\ op[i].score <= existingEntry[i].highScore) =>
          /\ resp'.status = 200
          /\ resp'.message = "Leaderboard updated successfully"
          /\ resp'.entry.score = op[i].score
          /\ resp'.entry.highScore = existingEntry[i].highScore
          /\ Len(store') = Len(store)
          /\ \A k \in 1 .. Len(store) :
               /\ store'[k].highScore = store[k].highScore
               /\ (store[k]._id = existingEntry[i]._id
                    /\ (op[i].score # existingEntry[i].score
                        \/ ~overlap[op[i].userId])) =>
                     store'[k].score = op[i].score ]_vars

\* A submission repeated the one before it for the same user, with a score
\* above the lowest.
C13_Resubmitted ==
  /\ Updated
  /\ resp.again
  /\ resp.score > 0

\* C13: a submission that repeats the score of the submission for the same
\* user completed just before it leaves the collection as the first left it:
\* the entry's score and highScore, and everything else, stay.
C13_ResubmissionIsIdempotent ==
  [][ \A i \in Req :
        (SubmitSave(i) /\ Resubmits(i)) =>
          /\ existingEntry[i] # NoDoc
          /\ resp'.status = 200
          /\ store' = store ]_vars

\* GET /leaderboard/user ran its top-10 query on a collection of more than
\* TopK entries, and an entry left out has the highScore of the last one in.
C14_Truncated ==
  \E i \in Req :
    /\ pc[i] = "all"
    /\ Len(topLeaderboard[i]) = TopK
    /\ Len(store) > TopK
    /\ \E j \in 1 .. Len(store) :
         /\ \A k \in 1 .. TopK : topLeaderboard[i][k].entry._id # store[j]._id
         /\ store[j].highScore = topLeaderboard[i][TopK].entry.highScore

\* C14: the top-10 list of GET /leaderboard/user is the head of a descending
\* highScore order of the N entries of the collection: min(10, N) different
\* entries, ranked 1..min(10, N) in that order, every entry left out with a
\* highScore no higher than any entry in the list.
C14_TopKIsTheHead ==
  [][ \A i \in Req :
        ViewTop10(i) =>
          LET t == topLeaderboard'[i]
              in == { t[k].entry : k \in 1 .. Len(t) }
              out == { store[j] : j \in 1 .. Len(store) } \ in
          IN  /\ Len(t) = Min(10, Len(store))
              /\ \A k \in 1 .. Len(t) :
                   /\ t[k].rank = k
                   /\ \E j \in 1 .. Len(store) : store[j] = t[k].entry
              /\ \A a, b \in 1 .. Len(t) :
                   a < b => /\ t[a].entry._id # t[b].entry._id
                            /\ t[a].entry.highScore >= t[b].entry.highScore
              /\ \A x \in in, y \in out : y.highScore <= x.highScore ]_vars

\* C15: two ranking queries over the same contents of the collection return
\* the entries in the same order, tied ones too.  GET /leaderboard/user runs
\* two: when its top-10 list is a ranking of the collection as the full query
\* finds it, and lists the user, the rank the full query gives the user is the
\* user's rank in the list.
C15_TiesInOneOrder ==
  [][ \A i \in Req :
        (ViewAll(i)
           /\ \E q \in Sorted(store) :
                topLeaderboard[i] = Ranked(Limit(q, TopK))) =>
          LET t == topLeaderboard[i]
              hits == { k \in 1 .. Len(t) : t[k].entry.userId = op[i].userId }
          IN  hits # {} =>
                resp'.rank = t[CHOOSE k \in hits : \A l \in hits : k <= l].rank ]_vars

\* DELETE /leaderboard answered after removing several entries.
C16_Cleared ==
  /\ resp.kind = "delete"
  /\ resp.deletedCount >= 2
  /\ store = << >>

\* C16: a step of DELETE /leaderboard removes every entry and reports how
\* many there were; across every other step every entry stays in the
\* collection, so the set of userIds that have an entry only grows.
C16_OnlyDeleteAllRemoves ==
  [][ IF \E i \in Req : DeleteAll(i)
      THEN /\ store' = << >>
           /\ resp'.kind = "delete"
           /\ resp'.deletedCount = Len(store)
      ELSE /\ \A k \in 1 .. Len(store) :
                \E l \in 1 .. Len(store') : store'[l]._id = store[k]._id
           /\ { store[k].userId : k \in 1 .. Len(store) }
                \subseteq { store'[l].userId : l \in 1 .. Len(store') } ]_vars

\* The part_000 server answered a submission for a user with an entry that did
\* not beat the highScore read, and was below it.
C17_NotHighEnough ==
  /\ variant = "part_000"
  /\ Updated
  /\ resp.score < resp.found.highScore
  /\ Indexes(resp.userId) # {}

\* C17: in part_000 a submission for a user with an entry whose score does
\* not beat the highScore read writes nothing: the collection stays as it is,
\* the answer is 200 'Score not high enough to update leaderboard' with the
\* entry as read.  Every entry of the collection has score = highScore, before
\* and after every step.
C17_NoWriteUnlessHigher ==
  [][ variant = "part_000" =>
        /\ \A i \in Req :
             (SubmitSave(i) /\ existingEntry[i] # NoDoc
                /\ op[i].score <= existingEntry[i].highScore) =>
               /\ store' = store
               /\ resp'.status = 200
               /\ resp'.message = "Score not high enough to update leaderboard"
               /\ resp'.entry = existingEntry[i]
        /\ \A k \in 1 .. Len(store) : store[k].score = store[k].highScore
        /\ \A k \in 1 .. Len(store') : store'[k].score = store'[k].highScore ]_vars

\* A submission changed the score of its user's entry while another user has
\* an entry.
C18_UpdatedBesideAnother ==
  /\ Updated
  /\ resp.message = "Leaderboard updated successfully"
  /\ resp.score # resp.found.score
  /\ \E k \in 1 .. Len(store) : store[k].userId # resp.userId

\* C18: every step of a submission for a user leaves the entries of every
\* other user as they are, in place; an entry it appends is the user's own.
C18_OthersUntouched ==
  [][ \A i \in Req :
        ((\E b \in Bodies : SubmitFindOne(i, b.userId, b.payload, b.score))
           \/ SubmitSave(i)) =>
          LET u == IF op[i].kind = "submit" THEN op[i].userId ELSE op'[i].userId
          IN  /\ Len(store') >= Len(store)
              /\ \A k \in 1 .. Len(store) :
                   store[k].userId # u => store'[k] = store[k]
              /\ \A l \in Len(store) + 1 .. Len(store') :
                   store'[l].userId = u ]_vars

====
